---- MODULE Spec2Model ----
(***************************************************************************)
(* EnvManager (src/AsyncSDKFrame/envManager.py): a key/value config table  *)
(* and a modules table kept in one sqlite file.  Every method opens its    *)
(* own connection, runs its statements and commits.                        *)
(*                                                                         *)
(* TEXT columns are modelled as sequences of one-character strings, so     *)
(* that str(), json.dumps and json.loads are computed character by         *)
(* character.  Python values are records of one shape:                     *)
(*   t      "str" | "int" | "bool" | "none" | "list" | "dict"              *)
(*   s      the characters of a str                                        *)
(*   n      the number of an int, 0/1 for a bool                           *)
(*   items  the elements of a list, the values of a dict                   *)
(*   keys   the keys of a dict, in insertion order                         *)
(***************************************************************************)
EXTENDS Integers, Sequences, FiniteSets, TLC

\* ------------------------------------------------------------------------
\* Python values
\* ------------------------------------------------------------------------
PyNone == [t |-> "none", s |-> <<>>, n |-> 0, items |-> <<>>, keys |-> <<>>]

PyStr(chars) == [t |-> "str", s |-> chars, n |-> 0, items |-> <<>>, keys |-> <<>>]

PyInt(i) == [t |-> "int", s |-> <<>>, n |-> i, items |-> <<>>, keys |-> <<>>]

PyBool(b) == [t |-> "bool", s |-> <<>>, n |-> IF b THEN 1 ELSE 0, items |-> <<>>, keys |-> <<>>]

PyList(elems) == [t |-> "list", s |-> <<>>, n |-> 0, items |-> elems, keys |-> <<>>]

PyDict(ks, vs) == [t |-> "dict", s |-> <<>>, n |-> 0, items |-> vs, keys |-> ks]

\* isinstance(value, (dict, list)), line 63
IsContainer(v) == v.t \in {"dict", "list"}

\* ------------------------------------------------------------------------
\* str(value) and json.dumps(value)
\* ------------------------------------------------------------------------
Digits == <<"0", "1", "2", "3", "4", "5", "6", "7", "8", "9">>

RECURSIVE IntToText(_)
\* decimal digits of a natural number, as str(int) and json.dumps(int) write it
IntToText(i) ==
    IF i < 10 THEN << Digits[i + 1] >>
    ELSE IntToText(i \div 10) \o << Digits[(i % 10) + 1] >>

\* str(value) for the values that are not dict or list (line 63, else branch)
PyStrOf(v) ==
    CASE v.t = "str"  -> v.s
      [] v.t = "int"  -> IntToText(v.n)
      [] v.t = "bool" -> IF v.n = 1 THEN <<"T", "r", "u", "e">>
                         ELSE <<"F", "a", "l", "s", "e">>
      [] v.t = "none" -> <<"N", "o", "n", "e">>

RECURSIVE EscapeChars(_)
\* json.dumps escapes the quote and the backslash inside a string
EscapeChars(chars) ==
    IF chars = <<>> THEN <<>>
    ELSE (IF Head(chars) \in {"\"", "\\"} THEN <<"\\", Head(chars)>> ELSE << Head(chars) >>)
         \o EscapeChars(Tail(chars))

QuoteText(chars) == <<"\"">> \o EscapeChars(chars) \o <<"\"">>

\* json.dumps turns a dict key that is not a str into its JSON scalar text
DumpsKey(k) ==
    CASE k.t = "str"  -> k.s
      [] k.t = "int"  -> IntToText(k.n)
      [] k.t = "bool" -> IF k.n = 1 THEN <<"t", "r", "u", "e">>
                         ELSE <<"f", "a", "l", "s", "e">>
      [] k.t = "none" -> <<"n", "u", "l", "l">>

RECURSIVE json_dumps(_), DumpsItems(_, _), DumpsPairs(_, _, _)
\* json.dumps(value) with the default separators ", " and ": "
json_dumps(v) ==
    CASE v.t = "str"  -> QuoteText(v.s)
      [] v.t = "int"  -> IntToText(v.n)
      [] v.t = "bool" -> IF v.n = 1 THEN <<"t", "r", "u", "e">>
                         ELSE <<"f", "a", "l", "s", "e">>
      [] v.t = "none" -> <<"n", "u", "l", "l">>
      [] v.t = "list" -> <<"[">> \o DumpsItems(v.items, 1) \o <<"]">>
      [] v.t = "dict" -> <<"{">> \o DumpsPairs(v.keys, v.items, 1) \o <<"}">>

DumpsItems(elems, i) ==
    IF i > Len(elems) THEN <<>>
    ELSE (IF i > 1 THEN <<",", " ">> ELSE <<>>)
         \o json_dumps(elems[i]) \o DumpsItems(elems, i + 1)

DumpsPairs(ks, vs, i) ==
    IF i > Len(ks) THEN <<>>
    ELSE (IF i > 1 THEN <<",", " ">> ELSE <<>>)
         \o QuoteText(DumpsKey(ks[i])) \o <<":", " ">> \o json_dumps(vs[i])
         \o DumpsPairs(ks, vs, i + 1)

\* ------------------------------------------------------------------------
\* json.loads(text)
\* ------------------------------------------------------------------------
\* The texts of the bounded model are written with these characters only;
\* the number grammar below is the part of JSON they can spell (unsigned
\* integers: no sign, fraction or exponent).
Whitespace == {" "}

DigitChars == {"0", "1", "2", "3", "4", "5", "6", "7", "8", "9"}

DigitValue(c) == CHOOSE d \in 0..9 : Digits[d + 1] = c

\* a failed scan (json.JSONDecodeError)
ParseFail == [ok |-> FALSE, val |-> PyNone, end |-> 0]

ParseOk(v, e) == [ok |-> TRUE, val |-> v, end |-> e]

CharAt(txt, i) == IF i \in 1..Len(txt) THEN txt[i] ELSE ""

RECURSIVE SkipWs(_, _)
\* index of the first character at or after i that is not whitespace
SkipWs(txt, i) ==
    IF i <= Len(txt) /\ txt[i] \in Whitespace THEN SkipWs(txt, i + 1) ELSE i

\* does the word w stand at position i of txt
MatchesAt(txt, i, w) ==
    /\ i + Len(w) - 1 <= Len(txt)
    /\ \A j \in 1..Len(w) : txt[i + j - 1] = w[j]

RECURSIVE ScanString(_, _, _)
\* the characters after an opening quote up to the closing one (scanstring)
ScanString(txt, i, acc) ==
    IF i > Len(txt) THEN ParseFail
    ELSE IF txt[i] = "\"" THEN ParseOk(PyStr(acc), i + 1)
    ELSE IF txt[i] = "\\" THEN
        IF CharAt(txt, i + 1) \in {"\"", "\\"}
        THEN ScanString(txt, i + 2, Append(acc, txt[i + 1]))
        ELSE ParseFail
    ELSE ScanString(txt, i + 1, Append(acc, txt[i]))

RECURSIVE ScanDigits(_, _, _)
ScanDigits(txt, i, acc) ==
    IF i <= Len(txt) /\ txt[i] \in DigitChars
    THEN ScanDigits(txt, i + 1, acc * 10 + DigitValue(txt[i]))
    ELSE ParseOk(PyInt(acc), i)

\* the integer part of NUMBER_RE: 0 | [1-9][0-9]*
ScanNumber(txt, i) ==
    IF txt[i] = "0" THEN ParseOk(PyInt(0), i + 1)
    ELSE ScanDigits(txt, i, 0)

\* dict[key] = value while parsing an object: a repeated key keeps its place
DictPut(ks, vs, k, v) ==
    IF \E j \in 1..Len(ks) : ks[j] = k
    THEN [ks |-> ks, vs |-> [vs EXCEPT ![CHOOSE j \in 1..Len(ks) : ks[j] = k] = v]]
    ELSE [ks |-> Append(ks, k), vs |-> Append(vs, v)]

RECURSIVE ScanOnce(_, _), ScanArray(_, _, _), ScanObject(_, _, _, _)
\* scan_once: one JSON value starting at position i
ScanOnce(txt, i) ==
    LET c == CharAt(txt, i) IN
    CASE c = "\"" -> ScanString(txt, i + 1, <<>>)
      [] c = "{" ->
            LET j == SkipWs(txt, i + 1) IN
            IF CharAt(txt, j) = "}" THEN ParseOk(PyDict(<<>>, <<>>), j + 1)
            ELSE ScanObject(txt, j, <<>>, <<>>)
      [] c = "[" ->
            LET j == SkipWs(txt, i + 1) IN
            IF CharAt(txt, j) = "]" THEN ParseOk(PyList(<<>>), j + 1)
            ELSE ScanArray(txt, j, <<>>)
      [] c = "n" -> IF MatchesAt(txt, i, <<"n", "u", "l", "l">>)
                    THEN ParseOk(PyNone, i + 4) ELSE ParseFail
      [] c = "t" -> IF MatchesAt(txt, i, <<"t", "r", "u", "e">>)
                    THEN ParseOk(PyBool(TRUE), i + 4) ELSE ParseFail
      [] c = "f" -> IF MatchesAt(txt, i, <<"f", "a", "l", "s", "e">>)
                    THEN ParseOk(PyBool(FALSE), i + 5) ELSE ParseFail
      [] c \in DigitChars -> ScanNumber(txt, i)
      [] OTHER -> ParseFail

\* JSONArray: txt[i] starts the next element
ScanArray(txt, i, acc) ==
    LET r == ScanOnce(txt, i) IN
    IF ~r.ok THEN ParseFail
    ELSE LET j == SkipWs(txt, r.end)
             c == CharAt(txt, j) IN
         IF c = "]" THEN ParseOk(PyList(Append(acc, r.val)), j + 1)
         ELSE IF c = "," THEN ScanArray(txt, SkipWs(txt, j + 1), Append(acc, r.val))
         ELSE ParseFail

\* JSONObject: txt[i] must be the quote that opens the next key
ScanObject(txt, i, ks, vs) ==
    IF CharAt(txt, i) # "\"" THEN ParseFail
    ELSE LET k == ScanString(txt, i + 1, <<>>) IN
         IF ~k.ok THEN ParseFail
         ELSE LET c1 == SkipWs(txt, k.end) IN
              IF CharAt(txt, c1) # ":" THEN ParseFail
              ELSE LET r == ScanOnce(txt, SkipWs(txt, c1 + 1)) IN
                   IF ~r.ok THEN ParseFail
                   ELSE LET d == DictPut(ks, vs, k.val, r.val)
                            j == SkipWs(txt, r.end)
                            c == CharAt(txt, j) IN
                        IF c = "}" THEN ParseOk(PyDict(d.ks, d.vs), j + 1)
                        ELSE IF c = "," THEN ScanObject(txt, SkipWs(txt, j + 1), d.ks, d.vs)
                        ELSE ParseFail

\* json.loads(text): one value between optional whitespace, nothing after it;
\* ok = FALSE stands for json.JSONDecodeError
json_loads(txt) ==
    LET r == ScanOnce(txt, SkipWs(txt, 1)) IN
    IF r.ok /\ SkipWs(txt, r.end) = Len(txt) + 1 THEN r ELSE ParseFail

\* ------------------------------------------------------------------------
\* Bounds of the model
\* ------------------------------------------------------------------------
\* longest list a caller stores with set
MaxListLen == 1

\* longest dependency list of a module descriptor
MaxDeps == 2

\* the depth at which the interpreter stops a recursion (sys.getrecursionlimit),
\* scaled down
RecursionLimit == 3

\* the config keys and the module names the callers use
Keys == {"host", "port"}

ModuleNames == {"m", "x"}

\* a mapping with no entries: an empty dict, a table without rows
Empty == [z \in {} |-> 0]

\* f with the entry k -> v inserted or replaced (INSERT OR REPLACE, dict[k] = v)
Put(f, k, v) == [z \in (DOMAIN f) \cup {k} |-> IF z = k THEN v ELSE f[z]]

\* a DELETE without its WHERE clause: every row goes
Drop_EveryRow(f, k) == Empty

\* f without the entry of k (DELETE ... WHERE key = k)
Drop(f, k) == [z \in (DOMAIN f) \ {k} |-> f[z]]

\* dict.get(k, default)
DictGet(d, k, default) == IF k \in DOMAIN d THEN d[k] ELSE default

\* ------------------------------------------------------------------------
\* Inputs of the callers
\* ------------------------------------------------------------------------
StrA == PyStr(<<"a">>)

\* a plain string that spells a JSON number
StrFive == PyStr(<<"5">>)

ScalarValues == {StrA, StrFive, PyInt(5), PyBool(TRUE)}

ListElems == {StrA, PyInt(5)}

ListValues == {PyList(e) : e \in UNION {[1..n -> ListElems] : n \in 0..MaxListLen}}

\* one mapping with a str key and one with an int key
DictValues == {PyDict(<<StrA>>, <<PyInt(5)>>), PyDict(<<PyInt(5)>>, <<StrA>>)}

ConfigValues == ScalarValues \cup ListValues \cup DictValues

Defaults == {PyNone, PyStr(<<"d">>)}

DepNames == <<"a", "b", "c", "d">>

\* the longest dependency list: ["a", "b"] for MaxDeps = 2
DepsAB == PyList([i \in 1..MaxDeps |-> PyStr(<< DepNames[i] >>)])

DepsC == PyList(<<PyStr(<<"c">>)>>)

\* a value json.dumps cannot encode (a set)
PySet == [t |-> "object", s |-> <<>>, n |-> 0, items |-> <<>>, keys |-> <<>>]

\* a module_info whose dependencies are such a value
BadInfo == [info |-> [dependencies |-> PySet]]

\* env.py is not there
NoEnvFile == [exists |-> FALSE, vars |-> <<>>]

\* vars(env_module).items() after env.py ran: the names the import machinery
\* sets, then the names env.py assigns, each as <<characters of the name, value>>
ModuleVars(assigned) ==
    << << <<"_", "_", "n", "a", "m", "e", "_", "_">>, PyStr(<<"e", "n", "v">>) >> >>
    \o assigned

\* env.py files: one assigns a str and None, one a list and an int
EnvSources ==
    { NoEnvFile,
      [exists |-> TRUE,
       vars |-> ModuleVars(<< << <<"h", "o", "s", "t">>, StrFive >>,
                              << <<"p", "o", "r", "t">>, PyNone >> >>)],
      [exists |-> TRUE,
       vars |-> ModuleVars(<< << <<"h", "o", "s", "t">>, PyList(<<StrA>>) >>,
                              << <<"p", "o", "r", "t">>, PyInt(5) >> >>)] }

\* module_info dicts: any of 'status', 'info' and the fields of 'info' may be missing
ModuleInfos ==
    { Empty,
      [info |-> Empty],
      [status |-> FALSE, info |-> [version |-> "1.0", dependencies |-> DepsAB]],
      [status |-> TRUE, info |-> [description |-> "demo", author |-> "au",
                                  optional_dependencies |-> DepsC]] }

VARIABLES
    tables,     \* the tables that exist in the file at db_path
    config,     \* rows of config: key -> value (TEXT)
    modules,    \* rows of modules: module_name -> the other six columns
    instance,   \* EnvManager._instance is set
    in_memory,  \* EnvManager.db_path is ":memory:"
    open_conns, \* connections the latest call opened and had not closed when it
                \* returned or raised (they stay open until the garbage collector
                \* finalizes them)
    last,       \* the latest call: its arguments, its result, the exception it raised
    prev        \* the call before it

vars == <<tables, config, modules, instance, in_memory, open_conns, last, prev>>

NoCall ==
    [op |-> "none", key |-> "", arg |-> PyNone, ret |-> PyNone, exc |-> "",
     name |-> "", status |-> FALSE, info |-> Empty, batch |-> <<>>,
     mret |-> <<>>, aret |-> Empty, bret |-> FALSE, retries |-> 0, source |-> NoEnvFile]

\* ------------------------------------------------------------------------
\* Config table
\* ------------------------------------------------------------------------
\* CREATE TABLE IF NOT EXISTS config ...; CREATE TABLE IF NOT EXISTS modules ...
\* With db_path ":memory:" the tables are made in the private database of
\* this one connection and are gone when _init_db closes it.
init_db(tbls) == IF in_memory THEN tbls ELSE tbls \cup {"config", "modules"}

\* get without the json.loads attempt: every stored TEXT comes back as a str
DecodeValue_RawOnly(txt) == PyStr(txt)

\* the value get returns for a stored TEXT: json.loads, or the raw string
DecodeValue(txt) ==
    LET r == json_loads(txt) IN IF r.ok THEN r.val ELSE PyStr(txt)

\* get whose retry after the schema creation drops the caller's default
get_call_RetryDropsDefault(tbls, cfg, key, default) ==
    [ret |-> IF key \in DOMAIN cfg THEN DecodeValue(cfg[key])
             ELSE IF "config" \in tbls THEN default ELSE PyNone,
     exc |-> "",
     tables |-> IF "config" \in tbls THEN tbls ELSE init_db(tbls),
     retries |-> IF "config" \in tbls THEN 0 ELSE 1]

RECURSIVE get_rec(_, _, _, _, _)
\* get(key, default) entered for the depth-th time by its own line 58: the
\* result, the exception, the tables afterwards and the retries made
get_rec(tbls, cfg, key, default, depth) ==
    IF "config" \in tbls
    THEN [ret |-> IF key \in DOMAIN cfg THEN DecodeValue(cfg[key]) ELSE default,
          exc |-> "", tables |-> tbls, retries |-> depth]
    ELSE IF depth >= RecursionLimit
    THEN [ret |-> PyNone, exc |-> "RecursionError", tables |-> tbls, retries |-> depth]
    ELSE get_rec(init_db(tbls), cfg, key, default, depth + 1)

\* get(key, default) as a caller calls it
get_call(tbls, cfg, key, default) == get_rec(tbls, cfg, key, default, 0)

\* serialized_value of set
Serialize(value) == IF IsContainer(value) THEN json_dumps(value) ELSE PyStrOf(value)

\* __getattr__(key): get(key), a KeyError turned into AttributeError
getattr_call(tbls, cfg, key) ==
    LET r == get_call(tbls, cfg, key, PyNone) IN
    [r EXCEPT !.exc = IF r.exc = "KeyError" THEN "AttributeError" ELSE r.exc]

\* hasattr(self, name) for a name that is no real attribute
HasAttr(tbls, cfg, name) == getattr_call(tbls, cfg, name).exc # "AttributeError"

\* env = EnvManager(): __new__ and __init__
EnvManager ==
    LET a == getattr_call(tables, config, "_initialized") IN
    /\ instance' = TRUE
    /\ tables' = IF ~HasAttr(tables, config, "_initialized") THEN init_db(a.tables)
                 ELSE a.tables
    /\ last' = [NoCall EXCEPT !.op = "EnvManager", !.exc = a.exc, !.retries = a.retries]
    /\ open_conns' = a.retries + 1
    /\ prev' = last
    /\ UNCHANGED <<config, modules, in_memory>>

\* db_path is pointed at a file that does not exist yet ("./fresh.db") or at
\* ":memory:", where every connection opens an empty database of its own
set_db_path(path) ==
    /\ instance
    /\ tables # {} \/ in_memory # (path = ":memory:")
    /\ in_memory' = (path = ":memory:")
    /\ tables' = {}
    /\ config' = Empty
    /\ modules' = Empty
    /\ open_conns' = 0
    /\ last' = [NoCall EXCEPT !.op = "set_db_path"]
    /\ prev' = last
    /\ UNCHANGED instance

get(key, default) ==
    LET r == get_call(tables, config, key, default) IN
    /\ instance
    /\ tables' = r.tables
    /\ last' = [NoCall EXCEPT !.op = "get", !.key = key, !.arg = default,
                              !.ret = r.ret, !.exc = r.exc, !.retries = r.retries]
    /\ open_conns' = r.retries + 1
    /\ prev' = last
    /\ UNCHANGED <<config, modules, instance, in_memory>>

getattr(key) ==
    LET r == getattr_call(tables, config, key) IN
    /\ instance
    /\ tables' = r.tables
    /\ last' = [NoCall EXCEPT !.op = "getattr", !.key = key, !.ret = r.ret, !.exc = r.exc,
                              !.retries = r.retries]
    /\ open_conns' = r.retries + 1
    /\ prev' = last
    /\ UNCHANGED <<config, modules, instance, in_memory>>

set(key, value) ==
    /\ instance
    /\ IF "config" \in tables
       THEN /\ config' = Put(config, key, Serialize(value))
            /\ last' = [NoCall EXCEPT !.op = "set", !.key = key, !.arg = value]
       ELSE /\ config' = config
            /\ last' = [NoCall EXCEPT !.op = "set", !.key = key, !.arg = value,
                                      !.exc = "OperationalError"]
    /\ open_conns' = (IF "config" \in tables THEN 0 ELSE 1)
    /\ prev' = last
    /\ UNCHANGED <<tables, modules, instance, in_memory>>

delete(key) ==
    /\ instance
    /\ IF "config" \in tables
       THEN /\ config' = Drop(config, key)
            /\ last' = [NoCall EXCEPT !.op = "delete", !.key = key]
       ELSE /\ config' = config
            /\ last' = [NoCall EXCEPT !.op = "delete", !.key = key,
                                      !.exc = "OperationalError"]
    /\ open_conns' = (IF "config" \in tables THEN 0 ELSE 1)
    /\ prev' = last
    /\ UNCHANGED <<tables, modules, instance, in_memory>>

\* a clear that also runs DELETE FROM modules
clear_AlsoDeletesModules ==
    /\ instance
    /\ IF "config" \in tables
       THEN /\ config' = Empty
            /\ modules' = Empty
            /\ last' = [NoCall EXCEPT !.op = "clear"]
       ELSE /\ config' = config
            /\ modules' = modules
            /\ last' = [NoCall EXCEPT !.op = "clear", !.exc = "OperationalError"]
    /\ open_conns' = (IF "config" \in tables THEN 0 ELSE 1)
    /\ prev' = last
    /\ UNCHANGED <<tables, instance, in_memory>>

clear ==
    /\ instance
    /\ IF "config" \in tables
       THEN /\ config' = Empty
            /\ last' = [NoCall EXCEPT !.op = "clear"]
       ELSE /\ config' = config
            /\ last' = [NoCall EXCEPT !.op = "clear", !.exc = "OperationalError"]
    /\ open_conns' = (IF "config" \in tables THEN 0 ELSE 1)
    /\ prev' = last
    /\ UNCHANGED <<tables, modules, instance, in_memory>>

RECURSIVE TextOf(_)
\* the str made of the characters cs
TextOf(cs) == IF cs = <<>> THEN "" ELSE Head(cs) \o TextOf(Tail(cs))

\* key.startswith("__")
StartsWithDunder(cs) == Len(cs) >= 2 /\ SubSeq(cs, 1, 2) = <<"_", "_">>

\* isinstance(value, (dict, list, str, int, float, bool))
IsConfigType(value) == value.t \in {"dict", "list", "str", "int", "bool"}

\* the entries of vars(env_module) the loop hands to set, in order
RECURSIVE Imported(_)
Imported(pairs) ==
    IF pairs = <<>> THEN <<>>
    ELSE IF ~StartsWithDunder(pairs[1][1]) /\ IsConfigType(pairs[1][2])
         THEN << pairs[1] >> \o Imported(Tail(pairs))
         ELSE Imported(Tail(pairs))

RECURSIVE SetAll(_, _)
\* the config rows after set(key, value) for each of the pairs in turn
SetAll(cfg, pairs) ==
    IF pairs = <<>> THEN cfg
    ELSE SetAll(Put(cfg, TextOf(pairs[1][1]), Serialize(pairs[1][2])), Tail(pairs))

\* an import without the env_file.exists() test: exec_module raises when
\* env.py is not there
load_env_file_NoExistsCheck(source) ==
    LET pairs == Imported(source.vars)
        exc == IF ~source.exists THEN "FileNotFoundError"
               ELSE IF pairs # <<>> /\ "config" \notin tables THEN "OperationalError"
               ELSE ""
    IN
    /\ instance
    /\ config' = IF exc = "" THEN SetAll(config, pairs) ELSE config
    /\ last' = [NoCall EXCEPT !.op = "load_env_file", !.source = source, !.exc = exc]
    /\ open_conns' = (IF exc = "OperationalError" THEN 1 ELSE 0)
    /\ prev' = last
    /\ UNCHANGED <<tables, modules, instance, in_memory>>

\* load_env_file() with source as the env.py of the working directory: one
\* set per imported name; the first set raises when the config table is
\* missing and leaves its connection unclosed
load_env_file(source) ==
    LET pairs == IF source.exists THEN Imported(source.vars) ELSE <<>>
        exc == IF pairs # <<>> /\ "config" \notin tables THEN "OperationalError" ELSE ""
    IN
    /\ instance
    /\ config' = IF exc = "" THEN SetAll(config, pairs) ELSE config
    /\ last' = [NoCall EXCEPT !.op = "load_env_file", !.source = source, !.exc = exc]
    /\ open_conns' = (IF exc = "" THEN 0 ELSE 1)
    /\ prev' = last
    /\ UNCHANGED <<tables, modules, instance, in_memory>>

\* ------------------------------------------------------------------------
\* Modules table
\* ------------------------------------------------------------------------
\* int(status)
IntOfBool(b) == IF b THEN 1 ELSE 0

\* the row INSERT OR REPLACE writes for a module_info dict (lines 119-125, 176-182)
RowOf(module_info) ==
    LET info == DictGet(module_info, "info", Empty) IN
    [status                |-> IntOfBool(DictGet(module_info, "status", TRUE)),
     version               |-> DictGet(info, "version", ""),
     description           |-> DictGet(info, "description", ""),
     author                |-> DictGet(info, "author", ""),
     dependencies          |-> json_dumps(DictGet(info, "dependencies", PyList(<<>>))),
     optional_dependencies |-> json_dumps(DictGet(info, "optional_dependencies", PyList(<<>>)))]

\* json.loads(text) if text else []
DecodeDeps(txt) == IF txt # <<>> THEN json_loads(txt).val ELSE PyList(<<>>)

\* a descriptor whose optional_dependencies are read from the dependencies column
DescriptorOf_DepsColumnTwice(row) ==
    [status |-> row.status # 0,
     info   |-> [version               |-> row.version,
                 description           |-> row.description,
                 author                |-> row.author,
                 dependencies          |-> DecodeDeps(row.dependencies),
                 optional_dependencies |-> DecodeDeps(row.dependencies)]]

\* the descriptor get_module and get_all_modules build from a row
DescriptorOf(row) ==
    [status |-> row.status # 0,
     info   |-> [version               |-> row.version,
                 description           |-> row.description,
                 author                |-> row.author,
                 dependencies          |-> DecodeDeps(row.dependencies),
                 optional_dependencies |-> DecodeDeps(row.optional_dependencies)]]

\* a status update written as INSERT OR REPLACE: it creates the missing row
UpdateStatus_Upsert(mods, module_name, status) ==
    IF module_name \in DOMAIN mods
    THEN [mods EXCEPT ![module_name].status = IntOfBool(status)]
    ELSE Put(mods, module_name, RowOf([status |-> status]))

\* a status update that rewrites the whole row of an existing module
UpdateStatus_ReplacesRow(mods, module_name, status) ==
    IF module_name \in DOMAIN mods
    THEN [mods EXCEPT ![module_name] = RowOf([status |-> status])]
    ELSE mods

\* UPDATE modules SET status = ? WHERE module_name = ?
UpdateStatus(mods, module_name, status) ==
    IF module_name \in DOMAIN mods
    THEN [mods EXCEPT ![module_name].status = IntOfBool(status)]
    ELSE mods

set_module_status(module_name, status) ==
    /\ instance
    /\ IF "modules" \in tables
       THEN /\ modules' = UpdateStatus(modules, module_name, status)
            /\ last' = [NoCall EXCEPT !.op = "set_module_status", !.name = module_name,
                                      !.status = status]
       ELSE /\ modules' = modules
            /\ last' = [NoCall EXCEPT !.op = "set_module_status", !.name = module_name,
                                      !.status = status, !.exc = "OperationalError"]
    /\ open_conns' = 1
    /\ prev' = last
    /\ UNCHANGED <<tables, config, instance, in_memory>>

\* a status query that reports a module without a row as disabled
StatusResult_DefaultDisabled(mods, module_name) ==
    IF module_name \in DOMAIN mods THEN mods[module_name].status # 0 ELSE FALSE

\* bool(result[0]) if result else True
StatusResult(mods, module_name) ==
    IF module_name \in DOMAIN mods THEN mods[module_name].status # 0 ELSE TRUE

\* a status query that creates the schema when the modules table is missing
\* and answers with the default
get_module_status_SelfHeals(module_name) ==
    /\ instance
    /\ tables' = IF "modules" \in tables THEN tables ELSE init_db(tables)
    /\ last' = [NoCall EXCEPT !.op = "get_module_status", !.name = module_name,
                              !.bret = StatusResult(modules, module_name)]
    /\ open_conns' = 1
    /\ prev' = last
    /\ UNCHANGED <<config, modules, instance, in_memory>>

get_module_status(module_name) ==
    /\ instance
    /\ IF "modules" \in tables
       THEN last' = [NoCall EXCEPT !.op = "get_module_status", !.name = module_name,
                                   !.bret = StatusResult(modules, module_name)]
       ELSE last' = [NoCall EXCEPT !.op = "get_module_status", !.name = module_name,
                                   !.exc = "OperationalError"]
    /\ open_conns' = 1
    /\ prev' = last
    /\ UNCHANGED <<tables, config, modules, instance, in_memory>>

RECURSIVE JsonSerializable(_)
\* json.dumps(v) raises TypeError for an object it has no encoding for
JsonSerializable(v) ==
    CASE v.t = "object" -> FALSE
      [] v.t = "list"   -> \A i \in 1..Len(v.items) : JsonSerializable(v.items[i])
      [] v.t = "dict"   -> \A i \in 1..Len(v.items) : JsonSerializable(v.items[i])
      [] OTHER -> TRUE

\* building the parameters of the INSERT for module_info raises (lines 120-125)
RowFails(module_info) ==
    LET info == DictGet(module_info, "info", Empty) IN
    \/ ~JsonSerializable(DictGet(info, "dependencies", PyList(<<>>)))
    \/ ~JsonSerializable(DictGet(info, "optional_dependencies", PyList(<<>>)))

\* processing some entry of the batch raises
BatchFails(items) == \E i \in 1..Len(items) : RowFails(items[i][2])

RECURSIVE UpsertAll_SkipsLast(_, _, _)
\* a loop that stops one entry early
UpsertAll_SkipsLast(mods, items, i) ==
    IF i >= Len(items) \/ RowFails(items[i][2]) THEN mods
    ELSE UpsertAll_SkipsLast(Put(mods, items[i][1], RowOf(items[i][2])), items, i + 1)

RECURSIVE UpsertAll(_, _, _)
\* the loop of set_all_modules over modules_info.items(), in the caller's
\* order, up to the end or to the first entry that raises: the rows as the
\* open transaction sees them
UpsertAll(mods, items, i) ==
    IF i > Len(items) \/ RowFails(items[i][2]) THEN mods
    ELSE UpsertAll(Put(mods, items[i][1], RowOf(items[i][2])), items, i + 1)

\* an exit of the with block that commits whatever the transaction holds
WithExit_CommitsOnError(before, working, raised) == working

\* the exit of "with sqlite3.connect(...) as conn": rollback when the block
\* raised, commit otherwise
WithExit(before, working, raised) == IF raised THEN before ELSE working

\* the exception of set_all_modules: none for an empty dict, which runs no
\* statement; TypeError from the first entry that cannot be encoded; "no such
\* table" from the first INSERT when the table is missing
BatchError(tbls, items) ==
    IF Len(items) = 0 THEN ""
    ELSE IF "modules" \notin tbls
    THEN (IF RowFails(items[1][2]) THEN "TypeError" ELSE "OperationalError")
    ELSE (IF BatchFails(items) THEN "TypeError" ELSE "")

set_all_modules(modules_info) ==
    LET exc == BatchError(tables, modules_info) IN
    /\ instance
    /\ IF "modules" \in tables
       THEN modules' = WithExit(modules, UpsertAll(modules, modules_info, 1), exc # "")
       ELSE modules' = modules
    /\ last' = [NoCall EXCEPT !.op = "set_all_modules", !.batch = modules_info,
                              !.exc = exc]
    /\ open_conns' = 1
    /\ prev' = last
    /\ UNCHANGED <<tables, config, instance, in_memory>>

\* modules_info of get_all_modules: one descriptor per row
AllDescriptors(mods) == [m \in DOMAIN mods |-> DescriptorOf(mods[m])]

get_all_modules ==
    /\ instance
    /\ IF "modules" \in tables
       THEN last' = [NoCall EXCEPT !.op = "get_all_modules", !.aret = AllDescriptors(modules)]
       ELSE last' = [NoCall EXCEPT !.op = "get_all_modules", !.exc = "OperationalError"]
    /\ open_conns' = 1
    /\ prev' = last
    /\ UNCHANGED <<tables, config, modules, instance, in_memory>>

\* the result of get_module: <<descriptor>>, or <<>> for None
ModuleResult(mods, module_name) ==
    IF module_name \in DOMAIN mods THEN << DescriptorOf(mods[module_name]) >> ELSE <<>>

get_module(module_name) ==
    /\ instance
    /\ IF "modules" \in tables
       THEN last' = [NoCall EXCEPT !.op = "get_module", !.name = module_name,
                                   !.mret = ModuleResult(modules, module_name)]
       ELSE last' = [NoCall EXCEPT !.op = "get_module", !.name = module_name,
                                   !.exc = "OperationalError"]
    /\ open_conns' = 1
    /\ prev' = last
    /\ UNCHANGED <<tables, config, modules, instance, in_memory>>

\* set_module, recorded under the name the caller used (set_module or update_module)
SetModuleAs(op, module_name, module_info) ==
    /\ instance
    /\ IF "modules" \in tables
       THEN /\ modules' = Put(modules, module_name, RowOf(module_info))
            /\ last' = [NoCall EXCEPT !.op = op, !.name = module_name, !.info = module_info]
       ELSE /\ modules' = modules
            /\ last' = [NoCall EXCEPT !.op = op, !.name = module_name, !.info = module_info,
                                      !.exc = "OperationalError"]
    /\ open_conns' = 1
    /\ prev' = last
    /\ UNCHANGED <<tables, config, instance, in_memory>>

set_module(module_name, module_info) == SetModuleAs("set_module", module_name, module_info)

\* an update that merges: a column module_info gives no value for keeps the
\* value of the old row
update_module_Merges(module_name, module_info) ==
    LET new == RowOf(module_info)
        old == IF module_name \in DOMAIN modules THEN modules[module_name] ELSE new
        info == DictGet(module_info, "info", Empty)
        kept(field) == IF field \in DOMAIN info THEN new[field] ELSE old[field]
        merged == [status                |-> IF "status" \in DOMAIN module_info
                                             THEN new.status ELSE old.status,
                   version               |-> kept("version"),
                   description           |-> kept("description"),
                   author                |-> kept("author"),
                   dependencies          |-> kept("dependencies"),
                   optional_dependencies |-> kept("optional_dependencies")]
    IN
    /\ instance
    /\ IF "modules" \in tables
       THEN /\ modules' = Put(modules, module_name, merged)
            /\ last' = [NoCall EXCEPT !.op = "update_module", !.name = module_name,
                                      !.info = module_info]
       ELSE /\ modules' = modules
            /\ last' = [NoCall EXCEPT !.op = "update_module", !.name = module_name,
                                      !.info = module_info, !.exc = "OperationalError"]
    /\ open_conns' = 1
    /\ prev' = last
    /\ UNCHANGED <<tables, config, instance, in_memory>>

update_module(module_name, module_info) == SetModuleAs("update_module", module_name, module_info)

\* cursor.rowcount >= 0: true whether or not a row was deleted
RemoveResult_AlwaysTrue(mods, module_name) == TRUE

\* cursor.rowcount > 0 after the DELETE
RemoveResult(mods, module_name) == module_name \in DOMAIN mods

\* a removal that keeps the row and marks it disabled
remove_module_SoftDelete(module_name) ==
    /\ instance
    /\ IF "modules" \in tables
       THEN /\ modules' = UpdateStatus(modules, module_name, FALSE)
            /\ last' = [NoCall EXCEPT !.op = "remove_module", !.name = module_name,
                                      !.bret = RemoveResult(modules, module_name)]
       ELSE /\ modules' = modules
            /\ last' = [NoCall EXCEPT !.op = "remove_module", !.name = module_name,
                                      !.exc = "OperationalError"]
    /\ open_conns' = 1
    /\ prev' = last
    /\ UNCHANGED <<tables, config, instance, in_memory>>

remove_module(module_name) ==
    /\ instance
    /\ IF "modules" \in tables
       THEN /\ modules' = Drop(modules, module_name)
            /\ last' = [NoCall EXCEPT !.op = "remove_module", !.name = module_name,
                                      !.bret = RemoveResult(modules, module_name)]
       ELSE /\ modules' = modules
            /\ last' = [NoCall EXCEPT !.op = "remove_module", !.name = module_name,
                                      !.exc = "OperationalError"]
    /\ open_conns' = 1
    /\ prev' = last
    /\ UNCHANGED <<tables, config, instance, in_memory>>

\* ------------------------------------------------------------------------
\* Specifications
\* ------------------------------------------------------------------------
\* modules_info dicts of set_all_modules: their items, in iteration order
Batches ==
    {<<>>}
    \cup {<< <<"m", d>> >> : d \in ModuleInfos}
    \cup {<< <<"m", d>>, <<"x", Empty>> >> : d \in ModuleInfos}
    \cup {<< <<"x", BadInfo>> >>,
          << <<"m", [status |-> FALSE]>>, <<"x", BadInfo>> >>,
          << <<"m", BadInfo>>, <<"x", Empty>> >>}

\* a row an earlier run of the program left in the modules table
StoredRow == RowOf([status |-> FALSE, info |-> [version |-> "1.0", dependencies |-> DepsAB]])

\* The file at db_path before the program starts: any of the two tables may
\* exist, with rows an earlier run left there.
InitFile(cfgs, mods) ==
    /\ tables \in SUBSET {"config", "modules"}
    /\ config \in (IF "config" \in tables THEN cfgs ELSE {Empty})
    /\ modules \in (IF "modules" \in tables THEN mods ELSE {Empty})
    /\ instance = FALSE
    /\ in_memory = FALSE
    /\ open_conns = 0
    /\ last = NoCall
    /\ prev = NoCall

Lifecycle == EnvManager \/ \E path \in {"./fresh.db", ":memory:"} : set_db_path(path)

ConfigOps ==
    \/ \E k \in Keys, d \in Defaults : get(k, d)
    \/ \E k \in Keys : getattr(k)
    \/ \E k \in Keys, v \in ConfigValues : set(k, v)
    \/ \E k \in Keys : delete(k)
    \/ clear
    \/ \E source \in EnvSources : load_env_file(source)

ModuleOps ==
    \/ \E m \in ModuleNames, b \in BOOLEAN : set_module_status(m, b)
    \/ \E m \in ModuleNames : get_module_status(m)
    \/ \E b \in Batches : set_all_modules(b)
    \/ get_all_modules
    \/ \E m \in ModuleNames : get_module(m)
    \/ \E m \in ModuleNames, d \in ModuleInfos : set_module(m, d)
    \/ \E m \in ModuleNames, d \in ModuleInfos : update_module(m, d)
    \/ \E m \in ModuleNames : remove_module(m)

\* the config table under all its operations, beside a modules table at rest
InitConfig == InitFile({Empty}, {Empty, [m |-> StoredRow]})

NextConfig == Lifecycle \/ ConfigOps

SpecConfig == InitConfig /\ [][NextConfig]_vars

\* the modules table under all its operations, beside a config table at rest
InitModules == InitFile({Empty, [host |-> <<"a">>]}, {Empty})

NextModules == Lifecycle \/ ModuleOps

SpecModules == InitModules /\ [][NextModules]_vars

Init == InitFile({Empty}, {Empty})

Next == Lifecycle \/ ConfigOps \/ ModuleOps

Spec == Init /\ [][Next]_vars

TypeOK ==
    /\ tables \subseteq {"config", "modules"}
    /\ DOMAIN config \subseteq Keys
    /\ DOMAIN modules \subseteq ModuleNames
    /\ instance \in BOOLEAN
    /\ in_memory \in BOOLEAN
    /\ in_memory => tables = {}
    /\ "config" \notin tables => config = Empty
    /\ "modules" \notin tables => modules = Empty
    /\ open_conns \in 0..(RecursionLimit + 1)

\* ------------------------------------------------------------------------
\* Properties of the config table
\* ------------------------------------------------------------------------
\* the latest call is a get that returned, right after a set of the same key
\* that succeeded
GetAfterSet ==
    /\ last.op = "get" /\ last.exc = ""
    /\ prev.op = "set" /\ prev.exc = ""
    /\ prev.key = last.key

\* C1: set(k, s) of a plain string s followed immediately by get(k) returns
\* s itself, a str with the same characters.
C1_SetGetPlainString ==
    (GetAfterSet /\ prev.arg.t = "str") => last.ret = prev.arg

\* C2 as stated: set(k, v) of any mapping or sequence v followed immediately
\* by get(k) returns a value equal to v.
C2_SetGetAnyStructured ==
    (GetAfterSet /\ IsContainer(prev.arg)) => last.ret = prev.arg

RECURSIVE JsonShaped(_)
\* v is built of str, int, bool, None, lists and dicts whose keys are all str
JsonShaped(v) ==
    CASE v.t = "list" -> \A i \in 1..Len(v.items) : JsonShaped(v.items[i])
      [] v.t = "dict" -> /\ \A i \in 1..Len(v.keys) : v.keys[i].t = "str"
                         /\ \A i \in 1..Len(v.items) : JsonShaped(v.items[i])
      [] OTHER -> TRUE

\* C2, amended: set(k, v) of a list or of a mapping v in which every mapping
\* key, at every depth, is a string, followed immediately by get(k), returns
\* a value equal to v.
C2_SetGetJsonShaped ==
    (GetAfterSet /\ IsContainer(prev.arg) /\ JsonShaped(prev.arg)) => last.ret = prev.arg

\* a mapping with a string key was stored and read back unchanged
C2_Witness ==
    /\ GetAfterSet
    /\ prev.arg.t = "dict" /\ Len(prev.arg.keys) > 0 /\ JsonShaped(prev.arg)
    /\ last.ret = prev.arg
    /\ config[last.key] = json_dumps(prev.arg)

\* C9: get(k, default=D) on a key without an entry returns D and raises
\* nothing, also when the config table does not exist: get then creates the
\* schema itself, so the table exists when get has returned.
C9_GetDefault ==
    [][ (last'.op = "get" /\ last'.key \notin DOMAIN config)
        => /\ last'.exc = ""
           /\ last'.ret = last'.arg
           /\ "config" \in tables'
           /\ config' = config ]_vars

\* get returned a default other than None from a file that had no config table
C9_Witness ==
    /\ last.op = "get" /\ last.exc = ""
    /\ prev.op = "set_db_path"
    /\ last.arg # PyNone /\ last.ret = last.arg
    /\ "config" \in tables

\* C10: attribute access to a name without a stored entry raises the
\* "configuration item not found" failure (AttributeError).
C10_GetattrMissingRaises ==
    (last.op = "getattr" /\ last.key \notin DOMAIN config) => last.exc = "AttributeError"

\* C11: a clear() that returns leaves the config table without rows, so that
\* get(k, D) returns D for every key k, also as the very next call; clear()
\* leaves the tables that exist, every row of the modules table and the
\* mapping get_all_modules() returns as they were.
C11_ClearFrame ==
    /\ [][ last'.op = "clear"
           => /\ modules' = modules
              /\ AllDescriptors(modules') = AllDescriptors(modules)
              /\ tables' = tables
              /\ last'.exc = ""
                 => /\ config' = Empty
                    /\ \A k \in Keys, d \in Defaults :
                          LET r == get_call(tables', config', k, d) IN
                          r.exc = "" /\ r.ret = d ]_vars
    /\ [] ( (last.op = "get" /\ prev.op = "clear" /\ prev.exc = "")
            => (last.exc = "" /\ last.ret = last.arg) )

\* clear() emptied a config table that had just been written, beside a
\* modules table with a row
C11_Witness ==
    /\ last.op = "clear" /\ last.exc = ""
    /\ prev.op = "set" /\ prev.exc = ""
    /\ config = Empty
    /\ modules # Empty

\* C12: where the config table exists, delete(k) raises nothing, removes the
\* entry of k when there is one, changes nothing when there is none, and
\* never changes the entry of another key; a get(k, default=D) after it
\* returns D.
C12_Delete ==
    /\ [][ (last'.op = "delete" /\ "config" \in tables)
           => /\ last'.exc = ""
              /\ DOMAIN config' = DOMAIN config \ {last'.key}
              /\ \A k \in DOMAIN config' : config'[k] = config[k]
              /\ last'.key \notin DOMAIN config => config' = config
              /\ modules' = modules /\ tables' = tables
              /\ \A d \in Defaults :
                    LET r == get_call(tables', config', last'.key, d) IN
                    r.exc = "" /\ r.ret = d ]_vars
    /\ [] ( (/\ last.op = "get"
             /\ prev.op = "delete" /\ prev.exc = ""
             /\ prev.key = last.key)
            => (last.exc = "" /\ last.ret = last.arg) )

\* the key that had just been set was deleted and the entry of the other key
\* is still there
C12_Witness ==
    /\ last.op = "delete" /\ last.exc = ""
    /\ prev.op = "set" /\ prev.exc = "" /\ prev.key = last.key
    /\ last.key \notin DOMAIN config
    /\ config # Empty

\* C15: load_env_file() with no env.py raises nothing and changes no table.
\* A load_env_file() that returns leaves config rows that a second run from
\* the same env.py would write again unchanged; and when it runs right after
\* a run from the same env.py that returned, it raises nothing and the config
\* table keeps exactly the contents it had after that first run.
C15_ImportIdempotent ==
    [][ last'.op = "load_env_file"
        => /\ tables' = tables /\ modules' = modules
           /\ ~last'.source.exists => (last'.exc = "" /\ config' = config)
           /\ last'.exc = ""
              => SetAll(config', Imported(last'.source.vars)) = config'
           /\ (last.op = "load_env_file" /\ last.exc = "" /\ last.source = last'.source)
              => (last'.exc = "" /\ config' = config) ]_vars

\* env.py was imported twice in a row: its list is stored under "host", its
\* int under "port", and no row was made for __name__
C15_Witness ==
    /\ last.op = "load_env_file" /\ last.exc = ""
    /\ prev.op = "load_env_file" /\ prev.exc = ""
    /\ last.source = prev.source
    /\ last.source.exists
    /\ DOMAIN config = {"host", "port"}
    /\ config["host"] = json_dumps(PyList(<<StrA>>))
    /\ config["port"] = <<"5">>

\* ------------------------------------------------------------------------
\* Properties of the modules table
\* ------------------------------------------------------------------------
\* the field of d['info'] the caller gave, or its default
Given(d, field, default) ==
    IF "info" \in DOMAIN d /\ field \in DOMAIN d.info THEN d.info[field] ELSE default

\* the descriptor a caller expects back for the module_info d it stored
ExpectedDescriptor(d) ==
    [status |-> IF "status" \in DOMAIN d THEN d.status ELSE TRUE,
     info   |-> [version               |-> Given(d, "version", ""),
                 description           |-> Given(d, "description", ""),
                 author                |-> Given(d, "author", ""),
                 dependencies          |-> Given(d, "dependencies", PyList(<<>>)),
                 optional_dependencies |-> Given(d, "optional_dependencies", PyList(<<>>))]]

\* C3: where the modules table exists, get_module_status(name) raises
\* nothing, returns true when name has no record and the stored status when
\* it has one.
C3_ModuleStatus ==
    (last.op = "get_module_status" /\ "modules" \in tables)
    => /\ last.exc = ""
       /\ last.name \notin DOMAIN modules => last.bret = TRUE
       /\ last.name \in DOMAIN modules => last.bret = (modules[last.name].status = 1)

\* a module without a record was reported enabled right after a recorded,
\* disabled module was reported disabled
C3_Witness ==
    /\ last.op = "get_module_status" /\ last.exc = ""
    /\ last.name \notin DOMAIN modules /\ last.bret = TRUE
    /\ prev.op = "get_module_status" /\ prev.exc = ""
    /\ prev.name \in DOMAIN modules /\ prev.bret = FALSE

\* C4: set_module_status on a name without a record raises nothing and
\* changes neither table: no record is created, a get_module_status(name)
\* after it returns true and a get_module(name) returns None.
C4_StatusOfMissingIsNoOp ==
    [][ (/\ last'.op = "set_module_status"
         /\ "modules" \in tables
         /\ last'.name \notin DOMAIN modules)
        => /\ last'.exc = ""
           /\ modules' = modules
           /\ config' = config
           /\ tables' = tables
           /\ StatusResult(modules', last'.name) = TRUE
           /\ ModuleResult(modules', last'.name) = <<>> ]_vars

\* a module without a record was set to disabled and then reported enabled,
\* beside rows in both tables
C4_Witness ==
    /\ last.op = "get_module_status" /\ last.exc = "" /\ last.bret = TRUE
    /\ prev.op = "set_module_status" /\ prev.exc = "" /\ prev.status = FALSE
    /\ prev.name = last.name
    /\ last.name \notin DOMAIN modules
    /\ modules # Empty /\ config # Empty

\* the columns of a modules row other than status
Metadata(row) ==
    <<row.version, row.description, row.author, row.dependencies, row.optional_dependencies>>

\* C5: set_module_status on an existing record writes the status and leaves
\* the other five columns of that record and every other record as they were.
C5_StatusOnly ==
    [][ (/\ last'.op = "set_module_status"
         /\ "modules" \in tables
         /\ last'.name \in DOMAIN modules)
        => /\ last'.exc = ""
           /\ DOMAIN modules' = DOMAIN modules
           /\ modules'[last'.name].status = (IF last'.status THEN 1 ELSE 0)
           /\ Metadata(modules'[last'.name]) = Metadata(modules[last'.name])
           /\ \A m \in DOMAIN modules \ {last'.name} : modules'[m] = modules[m] ]_vars

\* a module stored as disabled with version 1.0 was enabled and kept its
\* version and dependencies, beside the record of another module
C5_Witness ==
    /\ last.op = "set_module_status" /\ last.exc = "" /\ last.status = TRUE
    /\ prev.op = "set_module" /\ prev.exc = "" /\ prev.name = last.name
    /\ "status" \in DOMAIN prev.info /\ prev.info.status = FALSE
    /\ last.name \in DOMAIN modules
    /\ modules[last.name].status = 1
    /\ modules[last.name].version = "1.0"
    /\ modules[last.name].dependencies = json_dumps(DepsAB)
    /\ DOMAIN modules = ModuleNames

\* C6: set_module(m, d) followed by get_module(m) returns the fields given
\* in d and, for every field d lacks, status true, the empty string for
\* version, description and author, the empty list for both dependency lists.
C6_SetGetModule ==
    (/\ last.op = "get_module"
     /\ prev.op = "set_module" /\ prev.exc = ""
     /\ prev.name = last.name)
    => /\ last.exc = ""
       /\ last.mret = << ExpectedDescriptor(prev.info) >>

\* the descriptor of the example came back: disabled, version 1.0, the
\* dependencies given, no optional dependencies
C6_Witness ==
    /\ last.op = "get_module" /\ last.exc = ""
    /\ prev.op = "set_module" /\ prev.exc = "" /\ prev.name = last.name
    /\ prev.info = [status |-> FALSE, info |-> [version |-> "1.0", dependencies |-> DepsAB]]
    /\ Len(last.mret) = 1
    /\ last.mret[1].status = FALSE
    /\ last.mret[1].info.version = "1.0"
    /\ last.mret[1].info.dependencies = DepsAB
    /\ last.mret[1].info.optional_dependencies = PyList(<<>>)
    /\ last.mret[1].info.author = ""

\* C7: where the modules table exists, remove_module(name) returns true
\* exactly when name had a record, removes that record and no other; a
\* second remove_module(name) right after it returns false.
C7_RemoveModule ==
    /\ [][ (last'.op = "remove_module" /\ "modules" \in tables)
           => /\ last'.exc = ""
              /\ last'.bret = (last'.name \in DOMAIN modules)
              /\ DOMAIN modules' = DOMAIN modules \ {last'.name}
              /\ \A m \in DOMAIN modules' : modules'[m] = modules[m] ]_vars
    /\ [] ( (/\ last.op = "remove_module" /\ last.exc = ""
             /\ prev.op = "remove_module" /\ prev.exc = ""
             /\ prev.name = last.name)
            => last.bret = FALSE )

\* a recorded module was removed (true), removed again (false), and the
\* record of the other module is still there
C7_Witness ==
    /\ last.op = "remove_module" /\ last.exc = "" /\ last.bret = FALSE
    /\ prev.op = "remove_module" /\ prev.exc = "" /\ prev.bret = TRUE
    /\ prev.name = last.name
    /\ DOMAIN modules = ModuleNames \ {last.name}

\* the module names of a modules_info dict
BatchNames(items) == {items[i][1] : i \in 1..Len(items)}

\* the latest call is a get_all_modules that returned, right after a
\* set_all_modules that succeeded
GetAllAfterSetAll ==
    /\ last.op = "get_all_modules" /\ last.exc = ""
    /\ prev.op = "set_all_modules" /\ prev.exc = ""

\* every entry of the batch is returned with the fields given for it
BatchReturned ==
    \A i \in 1..Len(prev.batch) :
        /\ prev.batch[i][1] \in DOMAIN last.aret
        /\ last.aret[prev.batch[i][1]] = ExpectedDescriptor(prev.batch[i][2])

\* C8 as stated: after set_all_modules(M), get_all_modules() returns a
\* mapping whose key set is exactly the key set of M, each entry with the
\* fields given in M.
C8_ExactlyKeysOfBatch ==
    GetAllAfterSetAll => (DOMAIN last.aret = BatchNames(prev.batch) /\ BatchReturned)

\* C8, amended: set_all_modules(M) adds or replaces the records of the names
\* in M and keeps every other record; get_all_modules() after it returns
\* every name of M with the fields given in M, and besides them exactly the
\* names recorded before the call.
C8_KeysOfBatchAndEarlier ==
    /\ [][ (last'.op = "set_all_modules" /\ "modules" \in tables /\ last'.exc = "")
           => /\ ~BatchFails(last'.batch)
              /\ DOMAIN AllDescriptors(modules') = DOMAIN modules \cup BatchNames(last'.batch)
              /\ \A m \in DOMAIN modules \ BatchNames(last'.batch) :
                    modules'[m] = modules[m] ]_vars
    /\ [] (GetAllAfterSetAll => BatchReturned)

\* a batch of two modules was stored and both came back
C8_Witness ==
    /\ GetAllAfterSetAll
    /\ Len(prev.batch) = 2
    /\ DOMAIN last.aret = BatchNames(prev.batch)
    /\ BatchReturned
    /\ \E m \in DOMAIN last.aret : last.aret[m].status = FALSE

\* C13: update_module(name, d) does what set_module(name, d) does from the
\* same state: on a missing modules table it raises the storage error and
\* changes nothing; otherwise it raises nothing and replaces the whole record
\* of name by the row of d, so that get_module(name) returns the fields of d
\* and the default of every field d lacks, whatever the old record held, and
\* no other record changes.
C13_UpdateIsSet ==
    [][ last'.op = "update_module"
        => /\ tables' = tables /\ config' = config
           /\ "modules" \notin tables
              => (last'.exc = "OperationalError" /\ modules' = modules)
           /\ "modules" \in tables
              => /\ last'.exc = ""
                 /\ modules' = Put(modules, last'.name, RowOf(last'.info))
                 /\ ModuleResult(modules', last'.name) = << ExpectedDescriptor(last'.info) >>
                 /\ \A m \in DOMAIN modules \ {last'.name} :
                       m \in DOMAIN modules' /\ modules'[m] = modules[m] ]_vars

\* a module stored as disabled with version 1.0 and dependencies was updated
\* with a descriptor that names none of them: it is now enabled, without
\* version and without dependencies
C13_Witness ==
    /\ last.op = "update_module" /\ last.exc = ""
    /\ prev.op = "set_module" /\ prev.exc = "" /\ prev.name = last.name
    /\ prev.info = [status |-> FALSE, info |-> [version |-> "1.0", dependencies |-> DepsAB]]
    /\ "status" \notin DOMAIN last.info
    /\ Given(last.info, "version", "") = ""
    /\ modules[last.name].status = 1
    /\ modules[last.name].version = ""
    /\ modules[last.name].dependencies = json_dumps(PyList(<<>>))

\* C14: per module name the record goes NoRecord -> Recorded -> NoRecord. A
\* record appears only by set_module, update_module or set_all_modules and
\* disappears only by remove_module (or with the file, when db_path is
\* changed). After a remove_module(name) that returns, whatever the record
\* held, name has no record: get_module_status(name) returns true and
\* get_module(name) returns None, also as the very next call. No call ever
\* reports a name without a record as disabled.
C14_RecordLifecycle ==
    /\ [][ /\ \A m \in ModuleNames :
                /\ (m \notin DOMAIN modules /\ m \in DOMAIN modules')
                   => last'.op \in {"set_module", "update_module", "set_all_modules"}
                /\ (m \in DOMAIN modules /\ m \notin DOMAIN modules')
                   => \/ last'.op = "remove_module" /\ last'.name = m
                      \/ last'.op = "set_db_path"
           /\ (last'.op = "remove_module" /\ last'.exc = "")
              => /\ last'.name \notin DOMAIN modules'
                 /\ StatusResult(modules', last'.name) = TRUE
                 /\ ModuleResult(modules', last'.name) = <<>> ]_vars
    /\ [] ( (/\ prev.op = "remove_module" /\ prev.exc = ""
             /\ prev.name = last.name)
            => /\ last.op = "get_module_status" => (last.exc = "" /\ last.bret = TRUE)
               /\ last.op = "get_module" => (last.exc = "" /\ last.mret = <<>>) )
    /\ [] ( (/\ last.op = "get_module_status" /\ last.exc = ""
             /\ last.name \notin DOMAIN modules)
            => last.bret = TRUE )

\* a recorded module was set to disabled and then removed: the removal
\* reports that it deleted a row, and the name now counts as enabled and has
\* no descriptor
C14_Witness ==
    /\ last.op = "remove_module" /\ last.exc = "" /\ last.bret = TRUE
    /\ prev.op = "set_module_status" /\ prev.exc = "" /\ prev.status = FALSE
    /\ prev.name = last.name
    /\ last.name \notin DOMAIN modules
    /\ StatusResult(modules, last.name) = TRUE
    /\ ModuleResult(modules, last.name) = <<>>

\* the methods that work on the modules table
ModuleOpNames ==
    {"get_module_status", "set_module_status", "get_module", "get_all_modules",
     "set_module", "update_module", "set_all_modules", "remove_module"}

\* C16 as stated, for arguments that can be encoded: every module operation
\* called while the modules table is missing surfaces the storage error and
\* creates no table.
C16_EveryModuleOpSurfaces ==
    [][ (/\ last'.op \in ModuleOpNames
         /\ "modules" \notin tables
         /\ ~BatchFails(last'.batch))
        => (last'.exc = "OperationalError" /\ tables' = tables) ]_vars

\* C16, amended: a module operation called while the modules table is
\* missing creates no table, changes no row and returns no result.
\* set_all_modules of an empty mapping runs no statement and returns
\* normally; set_all_modules whose first entry cannot be encoded raises the
\* encoding error before any statement runs; every other call raises the
\* storage error.
C16_ModuleOpsDoNotSelfHeal ==
    [][ (last'.op \in ModuleOpNames /\ "modules" \notin tables)
        => /\ tables' = tables /\ modules' = modules /\ config' = config
           /\ last'.bret = FALSE /\ last'.mret = <<>> /\ last'.aret = Empty
           /\ last'.exc =
                 (IF last'.op = "set_all_modules" /\ last'.batch = <<>> THEN ""
                  ELSE IF last'.op = "set_all_modules" /\ RowFails(last'.batch[1][2])
                       THEN "TypeError"
                  ELSE "OperationalError") ]_vars

\* in a file that has the config table only, a status query and then a batch
\* of one module both raised the storage error and the file still has the
\* config table only
C16_Witness ==
    /\ last.op = "set_all_modules" /\ last.exc = "OperationalError"
    /\ Len(last.batch) = 1
    /\ prev.op = "get_module_status" /\ prev.exc = "OperationalError"
    /\ tables = {"config"}
    /\ modules = Empty

\* ------------------------------------------------------------------------
\* Schema creation and connections
\* ------------------------------------------------------------------------
\* C17: a get that finds the config table missing creates the schema once
\* and retries the read once; when the table is still missing on that retry
\* it returns default and raises nothing, so no get call makes more than one
\* retry.
C17_GetRetriesAtMostOnce ==
    last.op = "get"
    => /\ last.retries <= 1
       /\ last.exc = ""
       /\ "config" \notin tables => last.ret = last.arg

\* C18: after the first construction of EnvManager both the config table and
\* the modules table exist, whichever tables the file had before.
C18_SchemaAfterConstruction ==
    (last.op = "EnvManager" /\ prev.op = "none")
    => {"config", "modules"} \subseteq tables

\* the operations C19 names, schema creation being part of get
ReleasingOps == {"get", "set", "delete", "clear"} \cup ModuleOpNames

\* C19: once one of these operations has returned or has failed with a
\* storage error, no connection it opened remains unclosed.
C19_ConnectionsReleased ==
    (last.op \in ReleasingOps /\ last.exc \in {"", "OperationalError"})
    => open_conns = 0

\* C20: where the modules table exists, set_all_modules(M) commits all of M
\* or nothing: when some entry of M cannot be processed the call raises and
\* the modules table is what it was before the call, the entries of M before
\* the failing one included; when no entry fails the call raises nothing and
\* every entry of M has its row.
C20_BatchAtomic ==
    [][ (last'.op = "set_all_modules" /\ "modules" \in tables)
        => /\ BatchFails(last'.batch)
              => (last'.exc # "" /\ modules' = modules)
           /\ ~BatchFails(last'.batch)
              => /\ last'.exc = ""
                 /\ \A i \in 1..Len(last'.batch) :
                       /\ last'.batch[i][1] \in DOMAIN modules'
                       /\ modules'[last'.batch[i][1]] = RowOf(last'.batch[i][2])
                 /\ \A m \in DOMAIN modules : m \in DOMAIN modules' ]_vars

\* a batch of two failed at its second entry: the first entry, processed
\* before the failure, has no row
C20_Witness ==
    /\ last.op = "set_all_modules" /\ last.exc = "TypeError"
    /\ Len(last.batch) = 2
    /\ ~RowFails(last.batch[1][2]) /\ RowFails(last.batch[2][2])
    /\ "modules" \in tables
    /\ last.batch[1][1] \notin DOMAIN modules

====
